---- MODULE Spec2Model ----
(***************************************************************************)
(* The Synacor virtual machine of main.go: the fetch/decode/execute loop   *)
(* of main over the memory image, the eight registers, the stack, the     *)
(* line-buffered input and the output stream.  Words are Go uint16 values; *)
(* every arithmetic expression is reduced modulo 2^16 where the Go         *)
(* expression is.  A Go run-time panic ends the run with status "panic".   *)
(***************************************************************************)
EXTENDS Integers, Sequences, FiniteSets, TLC

VARIABLES
    image,      \* the slice readBinary returned (never changes)
    program,    \* main's program slice, see Slice below
    registers,  \* main's registers slice, indexed 0..7
    stack,      \* stack.s, top at the end
    index,      \* main's index: the instruction pointer
    input,      \* main's input string: the buffered line, as byte codes
    stdin,      \* the bytes os.Stdin has still to deliver
    output,     \* the bytes written to os.Stdout so far
    status,     \* "running", "halted" (break VM) or "panic"
    err,        \* the panic value when status = "panic"
    fetched,    \* opcode and raw operands read by the last loop iteration
    calls,      \* history: every call executed, with the stack it left
    probe       \* argument and result of the last direct getValue call

vars == <<image, program, registers, stack, index, input, stdin, output,
          status, err, fetched, calls, probe>>

-----------------------------------------------------------------------------
(* Bounds of the model.                                                    *)

MaxStack == 3
MaxOut == 3

(* Program constants.                                                      *)

Uint16 == 65536
RegBase == 32768
RegTop == 32775
Modulus == 32768
NumRegisters == 8

Word == 0 .. (Uint16 - 1)

\* the value getValue does not return: it panics with "overflow" instead
Overflow == -1

NoFetch == [index |-> -1, op |-> -1, a |-> 0, b |-> 0, c |-> 0]
NoProbe == [value |-> -1, result |-> -1]

-----------------------------------------------------------------------------
(* uint16 arithmetic.                                                      *)

Add16(x, y) == (x + y) % Uint16
Sub16(x, y) == (x + Uint16 - y) % Uint16
Mul16(x, y) == (x * y) % Uint16

RECURSIVE BitAnd(_, _)
BitAnd(x, y) ==
    IF x = 0 \/ y = 0 THEN 0
    ELSE (x % 2) * (y % 2) + 2 * BitAnd(x \div 2, y \div 2)

RECURSIVE BitOr(_, _)
BitOr(x, y) ==
    IF x = 0 THEN y
    ELSE IF y = 0 THEN x
    ELSE (IF x % 2 = 1 \/ y % 2 = 1 THEN 1 ELSE 0)
         + 2 * BitOr(x \div 2, y \div 2)

RECURSIVE Flip(_, _)
Flip(x, w) ==
    IF w = 0 THEN 0 ELSE (1 - (x % 2)) + 2 * Flip(x \div 2, w - 1)

\* the arithmetic negation -x in place of the complement ^x
Negate16(x) == (Uint16 - x) % Uint16

\* Go's ^x on a uint16: every one of the 16 bits inverted
BitNot16(x) == Flip(x, 16)

-----------------------------------------------------------------------------
(* getValue, setRegister and the stack.                                    *)

\* getValue with the overflow test on the two boundary words only
getValueBoundaryOnly(regs, value) ==
    IF value < RegBase THEN value
    ELSE IF value = RegTop + 1 \/ value = Uint16 - 1 THEN Overflow
    ELSE regs[(value - RegBase) % NumRegisters]

getValue(regs, value) ==
    IF value < RegBase THEN value
    ELSE IF value > RegTop THEN Overflow
    ELSE regs[value - RegBase]

\* setRegister that takes the register number modulo 8 instead of
\* indexing the slice with it
setRegisterMasked(regs, register, value) ==
    LET v == getValue(regs, value)
        i == Sub16(register, RegBase) % NumRegisters
    IN  IF v = Overflow THEN [err |-> "overflow", regs |-> regs]
        ELSE [err |-> "", regs |-> [regs EXCEPT ![i] = v]]

\* setRegister storing the raw word, without resolving it
setRegisterRaw(regs, register, value) ==
    LET i == Sub16(register, RegBase)
    IN  IF i >= NumRegisters
        THEN [err |-> "index out of range", regs |-> regs]
        ELSE [err |-> "", regs |-> [regs EXCEPT ![i] = value]]

\* registers[register-32768] = getValue(registers, value): the right-hand
\* side is evaluated first, then the slice is indexed (uint16 subtraction)
setRegister(regs, register, value) ==
    LET v == getValue(regs, value)
        i == Sub16(register, RegBase)
    IN  IF v = Overflow THEN [err |-> "overflow", regs |-> regs]
        ELSE IF i >= NumRegisters
             THEN [err |-> "index out of range", regs |-> regs]
        ELSE [err |-> "", regs |-> [regs EXCEPT ![i] = v]]

newStack == << >>

Push(s, v) == Append(s, v)

\* Pop taking the oldest element instead of the newest
PopFirst(s) ==
    IF Len(s) = 0
    THEN [res |-> 0, err |-> "empty stack", s |-> s]
    ELSE [res |-> s[1], err |-> "", s |-> SubSeq(s, 2, Len(s))]

Pop(s) ==
    IF Len(s) = 0
    THEN [res |-> 0, err |-> "empty stack", s |-> s]
    ELSE [res |-> s[Len(s)], err |-> "", s |-> SubSeq(s, 1, Len(s) - 1)]

\* fmt.Printf("%c", v) of a uint16: the UTF-8 encoding of code point v
EncodeRune(v) ==
    IF v < 128 THEN <<v>>
    ELSE IF v < 2048 THEN <<192 + (v \div 64), 128 + (v % 64)>>
    ELSE <<224 + (v \div 4096), 128 + ((v \div 64) % 64), 128 + (v % 64)>>

-----------------------------------------------------------------------------
(* Memory and the operand fetch at the head of the loop.                   *)

\* A []uint16 is held as its length, a fill word, and the words that
\* differ from the fill word by index, so that a memory of 32767 words is
\* as small a value as one of ten: the words at the indexes below size
\* that words does not list are equal to fill.
Slice(q) ==
    [size |-> Len(q),
     fill |-> 0,
     words |-> [i \in {j \in 0 .. (Len(q) - 1) : q[j + 1] # 0} |-> q[i + 1]]]

Size(m) == m.size

\* m[i], for i < len(m)
Cell(m, i) == IF i \in DOMAIN m.words THEN m.words[i] ELSE m.fill

\* m[i] = w, for i < len(m)
Store(m, i, w) ==
    [m EXCEPT !.words =
        [j \in (IF w = m.fill THEN (DOMAIN @) \ {i} ELSE (DOMAIN @) \cup {i})
            |-> IF j = i THEN w ELSE @[j]]]

\* memory read from the image as loaded, not from the slice as it is now
MemCached(i) == Cell(image, i)

Mem(i) == Cell(program, i)

InRange(i) == i < Size(program)

length == Size(program) % Uint16

\* the one condition that guards all three operand reads
Guard == Add16(index, 1) < length

RawA == IF Guard THEN Mem(Add16(index, 1)) ELSE 0
RawB == IF Guard THEN Mem(Add16(index, 2)) ELSE 0
RawC == IF Guard THEN Mem(Add16(index, 3)) ELSE 0

\* every slice read of the iteration up to the switch is inside the slice
FetchOK ==
    /\ Guard => /\ InRange(Add16(index, 1))
                /\ InRange(Add16(index, 2))
                /\ InRange(Add16(index, 3))
    /\ InRange(index)

Opcode == Mem(index)

-----------------------------------------------------------------------------
(* The machine state one loop iteration works on, and its outcomes.        *)

Cur ==
    [program |-> program, registers |-> registers, stack |-> stack,
     index |-> index, input |-> input, stdin |-> stdin, output |-> output,
     status |-> "running", err |-> ""]

\* panic(e): the run ends, what was already written stays written
Panic(s, e) == [s EXCEPT !.status = "panic", !.err = e]

\* the advance without the index++ that ends the iteration
AdvanceNoIncrement(s, n) == [s EXCEPT !.index = Add16(s.index, n)]

\* index += n inside the case, then the index++ that ends the iteration
Advance(s, n) == [s EXCEPT !.index = Add16(Add16(s.index, n), 1)]

\* the jump with target - 1 kept at 0 instead of wrapping to 65535
JumpSaturating(s, target) ==
    [s EXCEPT !.index = Add16(IF target = 0 THEN 0 ELSE target - 1, 1)]

\* index = target - 1 inside the case, then the index++
Jump(s, target) == [s EXCEPT !.index = Add16(Sub16(target, 1), 1)]

\* setRegister(registers, dst, src); index += n
WriteReg(s, dst, src, n) ==
    LET r == setRegister(s.registers, dst, src)
    IN  IF r.err # "" THEN Panic(s, r.err)
        ELSE Advance([s EXCEPT !.registers = r.regs], n)

-----------------------------------------------------------------------------
(* The cases of the switch.                                                *)

ExecHalt(s) == [s EXCEPT !.status = "halted"]

ExecSet(s, a, b) == WriteReg(s, a, b, 2)

\* push that stores the raw operand, without resolving it
ExecPushRaw(s, a) ==
    IF getValue(s.registers, a) = Overflow THEN Panic(s, "overflow")
    ELSE Advance([s EXCEPT !.stack = Push(s.stack, a)], 1)

ExecPush(s, a) ==
    LET v == getValue(s.registers, a)
    IN  IF v = Overflow THEN Panic(s, "overflow")
        ELSE Advance([s EXCEPT !.stack = Push(s.stack, v)], 1)

ExecPop(s, a) ==
    LET p == Pop(s.stack)
    IN  IF p.err # "" THEN Panic(s, p.err)
        ELSE WriteReg([s EXCEPT !.stack = p.s], a, p.res, 1)

ExecEq(s, a, b, c) ==
    LET x == getValue(s.registers, b)
        y == getValue(s.registers, c)
    IN  IF x = Overflow \/ y = Overflow THEN Panic(s, "overflow")
        ELSE WriteReg(s, a, IF x = y THEN 1 ELSE 0, 3)

ExecGt(s, a, b, c) ==
    LET x == getValue(s.registers, b)
        y == getValue(s.registers, c)
    IN  IF x = Overflow \/ y = Overflow THEN Panic(s, "overflow")
        ELSE WriteReg(s, a, IF x > y THEN 1 ELSE 0, 3)

ExecJmp(s, a) ==
    LET t == getValue(s.registers, a)
    IN  IF t = Overflow THEN Panic(s, "overflow") ELSE Jump(s, t)

ExecJt(s, a, b) ==
    LET x == getValue(s.registers, a)
        t == getValue(s.registers, b)
    IN  IF x = Overflow THEN Panic(s, "overflow")
        ELSE IF x # 0
             THEN IF t = Overflow THEN Panic(s, "overflow") ELSE Jump(s, t)
        ELSE Advance(s, 2)

ExecJf(s, a, b) ==
    LET x == getValue(s.registers, a)
        t == getValue(s.registers, b)
    IN  IF x = Overflow THEN Panic(s, "overflow")
        ELSE IF x = 0
             THEN IF t = Overflow THEN Panic(s, "overflow") ELSE Jump(s, t)
        ELSE Advance(s, 2)

ExecAdd(s, a, b, c) ==
    LET x == getValue(s.registers, b)
        y == getValue(s.registers, c)
    IN  IF x = Overflow \/ y = Overflow THEN Panic(s, "overflow")
        ELSE WriteReg(s, a, Add16(x, y) % Modulus, 3)

\* mult without the reduction modulo 32768
ExecMultNoReduce(s, a, b, c) ==
    LET x == getValue(s.registers, b)
        y == getValue(s.registers, c)
    IN  IF x = Overflow \/ y = Overflow THEN Panic(s, "overflow")
        ELSE WriteReg(s, a, Mul16(x, y), 3)

ExecMult(s, a, b, c) ==
    LET x == getValue(s.registers, b)
        y == getValue(s.registers, c)
    IN  IF x = Overflow \/ y = Overflow THEN Panic(s, "overflow")
        ELSE WriteReg(s, a, Mul16(x, y) % Modulus, 3)

\* mod that stores 0 for a zero divisor instead of dividing
ExecModTotal(s, a, b, c) ==
    LET x == getValue(s.registers, b)
        y == getValue(s.registers, c)
    IN  IF x = Overflow \/ y = Overflow THEN Panic(s, "overflow")
        ELSE WriteReg(s, a, IF y = 0 THEN 0 ELSE x % y, 3)

ExecMod(s, a, b, c) ==
    LET x == getValue(s.registers, b)
        y == getValue(s.registers, c)
    IN  IF x = Overflow \/ y = Overflow THEN Panic(s, "overflow")
        ELSE IF y = 0 THEN Panic(s, "integer divide by zero")
        ELSE WriteReg(s, a, x % y, 3)

ExecAnd(s, a, b, c) ==
    LET x == getValue(s.registers, b)
        y == getValue(s.registers, c)
    IN  IF x = Overflow \/ y = Overflow THEN Panic(s, "overflow")
        ELSE WriteReg(s, a, BitAnd(x, y) % Modulus, 3)

ExecOr(s, a, b, c) ==
    LET x == getValue(s.registers, b)
        y == getValue(s.registers, c)
    IN  IF x = Overflow \/ y = Overflow THEN Panic(s, "overflow")
        ELSE WriteReg(s, a, BitOr(x, y) % Modulus, 3)

ExecNot(s, a, b) ==
    LET x == getValue(s.registers, b)
    IN  IF x = Overflow THEN Panic(s, "overflow")
        ELSE WriteReg(s, a, BitNot16(x) % Modulus, 2)

ExecRmem(s, a, b) ==
    LET m == getValue(s.registers, b)
    IN  IF m = Overflow THEN Panic(s, "overflow")
        ELSE IF m >= Size(s.program) THEN Panic(s, "index out of range")
        ELSE LET value == getValue(s.registers, Cell(s.program, m))
             IN  IF value = Overflow THEN Panic(s, "overflow")
                 ELSE WriteReg(s, a, value, 2)

\* wmem on a memory that grows to hold the address it is given
ExecWmemGrows(s, a, b) ==
    LET address == getValue(s.registers, a)
        w == getValue(s.registers, b)
        room == IF address >= Size(s.program)
                THEN [s.program EXCEPT !.size = address + 1]
                ELSE s.program
    IN  IF address = Overflow \/ w = Overflow THEN Panic(s, "overflow")
        ELSE Advance([s EXCEPT !.program = Store(room, address, w)], 2)

ExecWmem(s, a, b) ==
    LET address == getValue(s.registers, a)
        w == getValue(s.registers, b)
    IN  IF address = Overflow \/ w = Overflow THEN Panic(s, "overflow")
        ELSE IF address >= Size(s.program)
             THEN Panic(s, "index out of range")
        ELSE Advance([s EXCEPT !.program = Store(s.program, address, w)], 2)

ExecCall(s, a) ==
    LET pushed == [s EXCEPT !.stack = Push(s.stack, Add16(s.index, 2))]
        t == getValue(s.registers, a)
    IN  IF t = Overflow THEN Panic(pushed, "overflow") ELSE Jump(pushed, t)

\* ret treating the empty stack as pop does
ExecRetPanics(s) ==
    LET p == Pop(s.stack)
        popped == [s EXCEPT !.stack = p.s]
        t == getValue(s.registers, p.res)
    IN  IF p.err # "" THEN Panic(s, p.err)
        ELSE IF t = Overflow THEN Panic(popped, "overflow")
        ELSE Jump(popped, t)

ExecRet(s) ==
    LET p == Pop(s.stack)
        popped == [s EXCEPT !.stack = p.s]
        t == getValue(s.registers, p.res)
    IN  IF p.err # "" THEN [s EXCEPT !.status = "halted"]
        ELSE IF t = Overflow THEN Panic(popped, "overflow")
        ELSE Jump(popped, t)

ExecOut(s, a) ==
    LET v == getValue(s.registers, a)
    IN  IF v = Overflow THEN Panic(s, "overflow")
        ELSE Advance([s EXCEPT !.output = s.output \o EncodeRune(v)], 1)

ExecNoop(s) == Advance(s, 0)

\* an unknown opcode that ends the run as halt does
ExecDefaultHalts(s) == [s EXCEPT !.status = "halted"]

ExecDefault(s) == Panic(s, "unknown opcode")

-----------------------------------------------------------------------------
(* case 20: the line buffer and its refill from os.Stdin.                  *)

Newline == 10

\* position of the first '\n' in bytes, 0 when there is none
FirstNewline(bytes) ==
    IF \E i \in 1 .. Len(bytes) : bytes[i] = Newline
    THEN CHOOSE i \in 1 .. Len(bytes) :
             /\ bytes[i] = Newline
             /\ \A j \in 1 .. (i - 1) : bytes[j] # Newline
    ELSE 0

\* The numbers of bytes a fresh bufio.Reader may have taken from os.Stdin
\* when ReadString('\n') returns: at least the line, at most all there is
\* (what it read past the line is dropped with the reader).
Chunks(s) ==
    IF s.input = << >> /\ FirstNewline(s.stdin) > 0
    THEN FirstNewline(s.stdin) .. Len(s.stdin)
    ELSE {0}

ExecIn(s, a, k) ==
    LET refill == s.input = << >>
        nl == FirstNewline(s.stdin)
    IN  IF refill /\ nl = 0
        THEN Panic([s EXCEPT !.input = s.stdin, !.stdin = << >>], "EOF")
        ELSE LET line == IF refill THEN SubSeq(s.stdin, 1, nl) ELSE s.input
                 rest == IF refill
                         THEN SubSeq(s.stdin, k + 1, Len(s.stdin))
                         ELSE s.stdin
                 value == Head(line)
                 s1 == [s EXCEPT !.input = Tail(line), !.stdin = rest]
             IN  WriteReg(s1, a, getValue(s1.registers, value), 1)

-----------------------------------------------------------------------------
(* One loop iteration per action.                                          *)

Apply(n) ==
    /\ program' = n.program
    /\ registers' = n.registers
    /\ stack' = n.stack
    /\ index' = n.index
    /\ input' = n.input
    /\ stdin' = n.stdin
    /\ output' = n.output
    /\ status' = n.status
    /\ err' = n.err

\* the operand fetch succeeded and the switch selects opcode k
Dispatch(k) ==
    /\ status = "running"
    /\ FetchOK
    /\ Opcode = k
    /\ fetched' = [index |-> index, op |-> Opcode,
                   a |-> RawA, b |-> RawB, c |-> RawC]
    /\ UNCHANGED <<image, probe>>

\* an operand read or program[index] is outside the slice
FetchPanic ==
    /\ status = "running"
    /\ ~FetchOK
    /\ Apply(Panic(Cur, "index out of range"))
    /\ UNCHANGED <<image, fetched, calls, probe>>

OpHalt ==
    /\ Dispatch(0)
    /\ Apply(ExecHalt(Cur))
    /\ UNCHANGED calls
OpSet ==
    /\ Dispatch(1)
    /\ Apply(ExecSet(Cur, RawA, RawB))
    /\ UNCHANGED calls
OpPush ==
    /\ Dispatch(2)
    /\ Len(stack) < MaxStack
    /\ Apply(ExecPush(Cur, RawA))
    /\ UNCHANGED calls
OpPop ==
    /\ Dispatch(3)
    /\ Apply(ExecPop(Cur, RawA))
    /\ UNCHANGED calls
OpEq ==
    /\ Dispatch(4)
    /\ Apply(ExecEq(Cur, RawA, RawB, RawC))
    /\ UNCHANGED calls
OpGt ==
    /\ Dispatch(5)
    /\ Apply(ExecGt(Cur, RawA, RawB, RawC))
    /\ UNCHANGED calls
OpJmp ==
    /\ Dispatch(6)
    /\ Apply(ExecJmp(Cur, RawA))
    /\ UNCHANGED calls
OpJt ==
    /\ Dispatch(7)
    /\ Apply(ExecJt(Cur, RawA, RawB))
    /\ UNCHANGED calls
OpJf ==
    /\ Dispatch(8)
    /\ Apply(ExecJf(Cur, RawA, RawB))
    /\ UNCHANGED calls
OpAdd ==
    /\ Dispatch(9)
    /\ Apply(ExecAdd(Cur, RawA, RawB, RawC))
    /\ UNCHANGED calls
OpMult ==
    /\ Dispatch(10)
    /\ Apply(ExecMult(Cur, RawA, RawB, RawC))
    /\ UNCHANGED calls
OpMod ==
    /\ Dispatch(11)
    /\ Apply(ExecMod(Cur, RawA, RawB, RawC))
    /\ UNCHANGED calls
OpAnd ==
    /\ Dispatch(12)
    /\ Apply(ExecAnd(Cur, RawA, RawB, RawC))
    /\ UNCHANGED calls
OpOr ==
    /\ Dispatch(13)
    /\ Apply(ExecOr(Cur, RawA, RawB, RawC))
    /\ UNCHANGED calls
OpNot ==
    /\ Dispatch(14)
    /\ Apply(ExecNot(Cur, RawA, RawB))
    /\ UNCHANGED calls
OpRmem ==
    /\ Dispatch(15)
    /\ Apply(ExecRmem(Cur, RawA, RawB))
    /\ UNCHANGED calls
OpWmem ==
    /\ Dispatch(16)
    /\ Apply(ExecWmem(Cur, RawA, RawB))
    /\ UNCHANGED calls
OpCall ==
    /\ Dispatch(17)
    /\ Len(stack) < MaxStack
    /\ Apply(ExecCall(Cur, RawA))
    /\ calls' = calls \cup {[p |-> index, after |-> stack']}
OpRet ==
    /\ Dispatch(18)
    /\ Apply(ExecRet(Cur))
    /\ UNCHANGED calls
OpOut ==
    /\ Dispatch(19)
    /\ Len(output) < MaxOut
    /\ Apply(ExecOut(Cur, RawA))
    /\ UNCHANGED calls
OpIn ==
    /\ Dispatch(20)
    /\ \E k \in Chunks(Cur) : Apply(ExecIn(Cur, RawA, k))
    /\ UNCHANGED calls
OpNoop ==
    /\ Dispatch(21)
    /\ Apply(ExecNoop(Cur))
    /\ UNCHANGED calls
OpDefault ==
    /\ status = "running"
    /\ FetchOK
    /\ Opcode > 21
    /\ fetched' = [index |-> index, op |-> Opcode,
                   a |-> RawA, b |-> RawB, c |-> RawC]
    /\ Apply(ExecDefault(Cur))
    /\ UNCHANGED <<image, calls, probe>>

-----------------------------------------------------------------------------
(* The images and the standard inputs the runs start from.                 *)

\* register addresses
R0 == RegBase
R1 == RegBase + 1
R7 == RegTop

\* set r0 to x, then one instruction with every operand drawn from a small
\* set of literals, register addresses and invalid words, then halts
Seeds == {1, 21845, 32767}
Dests == {R0, R7, 0, 9, 32776}
Sources == {0, 1, 21845, 32767, R0, R1, 32776}

OneInstruction ==
    { <<1, R0, x, op, a, b, c, 0, 0, 0, 0>> :
        x \in Seeds, op \in 0 .. 22, a \in Dests, b \in Sources,
        c \in Sources }

\* the end-to-end programs of the specification, as they stand
NoopHalt == <<21, 0>>
OutA == <<19, 65>>
AddOut == <<9, R0, R1, 4, 19, R0, 0>>

\* the same programs followed by three more words, so that every operand
\* read of every instruction they execute is inside the slice
NoopHaltPadded == <<21, 0, 0, 0, 0>>
OutAPadded == <<19, 65, 0, 0, 0, 0>>
AddOutPadded == <<9, R0, R1, 4, 19, R0, 0, 0, 0, 0>>

StackValues == {0, 7, 32767, R0}

\* push x; push y; pop r0; pop r1; halt
PushPop == { <<2, x, 2, y, 3, R0, 3, R1, 0, 0, 0, 0>> :
                 x \in StackValues, y \in StackValues }

\* call 4; halt | 4: push x; pop r0; ret
CallPushPopRet == { <<17, 4, 0, 0, 2, x, 3, R0, 18, 0, 0, 0>> :
                        x \in StackValues }

\* call 4; halt | 4: call 8; ret | 8: ret
NestedCalls == <<17, 4, 0, 0, 17, 8, 18, 0, 18, 0, 0, 0>>

\* call 4; halt | 4: pop r0; push r0; ret
CallPopPushRet == <<17, 4, 0, 0, 3, R0, 2, R0, 18, 0, 0, 0>>

\* call 4; halt | 4: pop r0; ret: the return address is gone, ret halts
CallPopRet == <<17, 4, 0, 0, 3, R0, 18, 0, 0, 0>>

\* wmem 4 19; noop; noop (rewritten to: out 65); halt
PatchOpcode == <<16, 4, 19, 21, 21, 65, 0, 0, 0, 0>>

\* wmem 4 66; out 65 (rewritten to: out 66); halt
PatchOperand == <<16, 4, 66, 19, 65, 0, 0, 0, 0>>

\* wmem 0 0; jmp 0: the instruction at 0 rewrites itself to halt
PatchSelf == <<16, 0, 0, 6, 0, 0, 0>>

\* set r0 19; wmem 6 r0; noop (rewritten to: out 65); halt
PatchByRegister == <<1, R0, 19, 16, 6, R0, 21, 65, 0, 0, 0, 0>>

\* A full 15-bit memory whose last word is a call:
\*   0: jt r0 8 | 3: set r0 1 | 6: jmp 32766 | 8: ret | ... | 32766: call
LastAddress == RegBase - 2

CallAtEnd ==
    [size |-> LastAddress + 1,
     fill |-> 0,
     words |-> (LastAddress :> 17)
               @@ Slice(<<7, R0, 8, 1, R0, 1, 6, LastAddress, 18>>).words]

\* One word less, the last word again a call: it pushes 32767
\*   0: jt r0 8 | 3: set r0 1 | 6: jmp 32765 | 8: ret | ... | 32765: call
CallBelowEnd ==
    [size |-> LastAddress,
     fill |-> 0,
     words |-> (LastAddress - 1 :> 17)
               @@ Slice(<<7, R0, 8, 1, R0, 1, 6, LastAddress - 1, 18>>).words]

\* The largest memory whose length fits the uint16 length, all noop but
\*   0: jmp 32767 | ... | 65531: jt 0 21 | 65534: jt (last word, operands
\*   not read)
LastWord == Uint16 - 2

NoopSled ==
    [size |-> LastWord + 1,
     fill |-> 21,
     words |-> (0 :> 6) @@ (1 :> RegBase - 1) @@ (LastWord - 3 :> 7)
               @@ (LastWord - 2 :> 0) @@ (LastWord :> 7)]

\* out 200; halt
OutHigh == <<19, 200, 0, 0, 0, 0>>

\* in r0; in r1; out r0; out r1; halt
Echo == <<20, R0, 20, R1, 19, R0, 19, R1, 0, 0, 0, 0>>

\* in r0; in r1; in r2; halt
ReadThree == <<20, R0, 20, R1, 20, RegBase + 2, 0, 0, 0, 0>>

\* in with a destination that is no register address
InBadDest == {<<20, a, 0, 0, 0>> : a \in {5, 32776}}

MaxIn == 3
Bytes == {Newline, 97, 98}

RECURSIVE SeqsUpTo(_, _)
SeqsUpTo(S, n) ==
    IF n = 0 THEN {<< >>}
    ELSE LET shorter == SeqsUpTo(S, n - 1)
         IN  shorter \cup { Append(q, x) : q \in shorter, x \in S }

Stdins == SeqsUpTo(Bytes, MaxIn)

Scenarios ==
    {NoopHalt, OutA, AddOut, NoopHaltPadded, OutAPadded, AddOutPadded,
     NestedCalls, CallPopPushRet, CallPopRet, PatchOpcode, PatchOperand,
     PatchSelf, PatchByRegister, OutHigh, << >>}
    \cup PushPop \cup CallPushPopRet

\* what readBinary may return
Images ==
    {Slice(q) : q \in OneInstruction \cup Scenarios}
    \cup {CallAtEnd, CallBelowEnd, NoopSled}

Loads ==
    { [image |-> i, stdin |-> << >>] : i \in Images }
    \cup { [image |-> Slice(q), stdin |-> t] :
               q \in {Echo, ReadThree} \cup InBadDest, t \in Stdins }

-----------------------------------------------------------------------------

Init ==
    /\ \E l \in Loads :
        /\ image = l.image
        /\ program = l.image
        /\ stdin = l.stdin
    /\ registers = [i \in 0 .. (NumRegisters - 1) |-> 0]
    /\ stack = newStack
    /\ index = 0
    /\ input = << >>
    /\ output = << >>
    /\ status = "running"
    /\ err = ""
    /\ fetched = NoFetch
    /\ calls = {}
    /\ probe = NoProbe

Next ==
    \/ FetchPanic
    \/ OpHalt
    \/ OpSet
    \/ OpPush
    \/ OpPop
    \/ OpEq
    \/ OpGt
    \/ OpJmp
    \/ OpJt
    \/ OpJf
    \/ OpAdd
    \/ OpMult
    \/ OpMod
    \/ OpAnd
    \/ OpOr
    \/ OpNot
    \/ OpRmem
    \/ OpWmem
    \/ OpCall
    \/ OpRet
    \/ OpOut
    \/ OpIn
    \/ OpNoop
    \/ OpDefault

Spec == Init /\ [][Next]_vars

-----------------------------------------------------------------------------
(* getValue on its own: every raw word against a few register banks.      *)

Banks ==
    { [i \in 0 .. (NumRegisters - 1) |-> 0],
      [i \in 0 .. (NumRegisters - 1) |-> i + 1],
      [i \in 0 .. (NumRegisters - 1) |-> 32767 - i],
      [i \in 0 .. (NumRegisters - 1) |-> 65535 - i] }

InitResolve ==
    /\ registers \in Banks
    /\ image = Slice(<< >>)
    /\ program = Slice(<< >>)
    /\ stdin = << >>
    /\ stack = newStack
    /\ index = 0
    /\ input = << >>
    /\ output = << >>
    /\ status = "running"
    /\ err = ""
    /\ fetched = NoFetch
    /\ calls = {}
    /\ probe = NoProbe

Resolve ==
    /\ probe = NoProbe
    /\ \E v \in Word :
        probe' = [value |-> v, result |-> getValue(registers, v)]
    /\ UNCHANGED <<image, program, registers, stack, index, input, stdin,
                   output, status, err, fetched, calls>>

SpecResolve == InitResolve /\ [][Resolve]_vars

-----------------------------------------------------------------------------
(* What the properties below say about one loop iteration.                 *)

\* the iteration that starts in this state executes opcode k
Executes(k) == status = "running" /\ FetchOK /\ Opcode = k

IsRegister(w) == 32768 <= w /\ w <= 32775

\* value(w) in this state, for a word that resolves
Value(w) == IF w < 32768 THEN w ELSE registers[w - 32768]

Resolves(w) == w <= 32775

Bit(n, i) == (n \div (2 ^ i)) % 2

\* exactly register r changes, to v, and the run goes on
Stores(r, v) ==
    /\ status' = "running"
    /\ registers' = [registers EXCEPT ![r] = v]

-----------------------------------------------------------------------------
\* C1: getValue returns v for v < 32768, the content of register v-32768
\* for 32768 <= v <= 32775, and panics with "overflow" for every v >= 32776.
ResolveRule ==
    probe # NoProbe =>
        LET v == probe.value
            r == probe.result
        IN  /\ v < 32768 => r = v
            /\ (32768 <= v /\ v <= 32775) => r = registers[v - 32768]
            /\ v >= 32776 => r = Overflow

ResolveOverflowWitness ==
    /\ probe.value = 40000
    /\ probe.result = Overflow
    /\ registers[0] = 1

\* C2: every register always holds a value in [0, 32767], and every value
\* wmem writes into a memory cell is in [0, 32767].
StorageInvariant ==
    /\ \A r \in 0 .. 7 : registers[r] \in 0 .. 32767
    /\ \A i \in DOMAIN program.words :
        Cell(program, i) # Cell(image, i) => Cell(program, i) \in 0 .. 32767
    /\ (fetched.op = 16 /\ status = "running") =>
        Cell(program, Value(fetched.a)) \in 0 .. 32767

StorageWitness ==
    /\ fetched.op = 16
    /\ status = "running"
    /\ registers[0] = 32767
    /\ Cell(program, 9) = 32767
    /\ Cell(image, 9) = 0

\* C3: add, mult, and, or store in register a the true sum, product,
\* bitwise and, bitwise or of value(b) and value(c), reduced modulo 32768;
\* the stored value is in [0, 32767].
ArithmeticStores ==
    [][\A k \in {9, 10, 12, 13} :
        (Executes(k) /\ IsRegister(RawA) /\ Resolves(RawB) /\ Resolves(RawC))
        => LET x == Value(RawB)
               y == Value(RawC)
               r == RawA - 32768
           IN  /\ status' = "running"
               /\ \A q \in (0 .. 7) \ {r} : registers'[q] = registers[q]
               /\ registers'[r] \in 0 .. 32767
               /\ k = 9 => registers'[r] = (x + y) % 32768
               /\ k = 10 => registers'[r] = (x * y) % 32768
               /\ k = 12 => \A i \in 0 .. 14 :
                     Bit(registers'[r], i) = Bit(x, i) * Bit(y, i)
               /\ k = 13 => \A i \in 0 .. 14 :
                     Bit(registers'[r], i)
                         = IF Bit(x, i) + Bit(y, i) > 0 THEN 1 ELSE 0
      ]_vars

\* mult r0 r0 32767 with r0 = 32767 has stored 1
MultExtremesWitness ==
    /\ status = "running"
    /\ fetched = [index |-> 3, op |-> 10, a |-> 32768, b |-> 32768,
                  c |-> 32767]
    /\ Cell(image, 2) = 32767
    /\ registers[0] = 1

\* C4: not with value(b) = v stores 32767 - v in register a.
NotStores ==
    [][(Executes(14) /\ IsRegister(RawA) /\ Resolves(RawB))
        => Stores(RawA - 32768, 32767 - Value(RawB))
      ]_vars

NotWitness ==
    /\ status = "running"
    /\ fetched.op = 14
    /\ fetched.a = 32775
    /\ fetched.b = 21845
    /\ registers[7] = 10922

\* C5: push, pop, call and ret work on one LIFO store: push appends
\* value(a), call appends the address after the call, pop and ret remove
\* exactly the last element still on the stack and use it, no other
\* instruction touches the stack; push x, push y, pop r0, pop r1 leaves y
\* in r0 and x in r1 and the stack as it was.
StackIsLIFO ==
    /\ [][/\ (Executes(2) /\ Resolves(RawA))
              => stack' = Append(stack, Value(RawA))
          /\ Executes(17) => stack' = Append(stack, (index + 2) % 65536)
          /\ (Executes(3) /\ stack # << >>)
              => /\ stack = Append(stack', stack[Len(stack)])
                 /\ (IsRegister(RawA) /\ Resolves(stack[Len(stack)]))
                     => Stores(RawA - 32768, Value(stack[Len(stack)]))
          /\ (Executes(18) /\ stack # << >>)
              => /\ stack = Append(stack', stack[Len(stack)])
                 /\ Resolves(stack[Len(stack)])
                     => /\ status' = "running"
                        /\ index' = Value(stack[Len(stack)])
          /\ (status = "running" /\ FetchOK /\ Opcode \notin {2, 3, 17, 18})
              => stack' = stack
         ]_vars
    /\ [](\A x \in {0, 7, 32767} : \A y \in {0, 7, 32767} :
            (image = Slice(<<2, x, 2, y, 3, 32768, 3, 32769, 0, 0, 0, 0>>)
             /\ status # "running")
            => /\ status = "halted"
               /\ registers[0] = y
               /\ registers[1] = x
               /\ stack = << >>)

\* call 4; halt | 4: push 7; pop r0; ret has returned to the halt at 2
StackWitness ==
    /\ image = Slice(<<17, 4, 0, 0, 2, 7, 3, 32768, 18, 0, 0, 0>>)
    /\ status = "halted"
    /\ fetched.index = 2
    /\ registers[0] = 7
    /\ stack = << >>

\* C6: pop on the empty stack ends the run with a panic, ret on the empty
\* stack ends it as halt does, and neither changes a register or a cell.
EmptyStackOutcomes ==
    [][/\ (Executes(3) /\ stack = << >>)
           => /\ status' = "panic"
              /\ err' = "empty stack"
              /\ registers' = registers
              /\ program' = program
       /\ (Executes(18) /\ stack = << >>)
           => /\ status' = "halted"
              /\ err' = ""
              /\ registers' = registers
              /\ program' = program
       /\ Executes(0) => (status' = "halted" /\ err' = "")
      ]_vars

\* call 4 | 4: pop r0; ret: the ret found the stack empty and halted
EmptyRetWitness ==
    /\ image = Slice(CallPopRet)
    /\ status = "halted"
    /\ fetched.op = 18
    /\ fetched.index = 6
    /\ stack = << >>
    /\ registers[0] = 2

\* C7: a ret executed with the stack as a call at address p left it
\* continues at p + 2, with the stack as it was before that call.
ReturnAfterCall ==
    [][\A k \in calls :
        (Executes(18) /\ stack = k.after)
        => /\ status' = "running"
           /\ index' = k.p + 2
           /\ stack' = SubSeq(k.after, 1, Len(k.after) - 1)
      ]_vars

\* C8: every iteration reads its opcode and its operands from memory as it
\* is at that moment; wmem puts value(b) in cell value(a) and no other
\* instruction changes a cell; an instruction or operand rewritten by wmem
\* is executed as rewritten.
FetchesCurrentMemory ==
    /\ [][/\ (status = "running" /\ FetchOK)
              => \/ vars' = vars
                 \/ LET g == (index + 1) % 65536 < Size(program) % 65536
                    IN  fetched' =
                          [index |-> index,
                           op |-> Cell(program, index),
                           a |-> IF g THEN Cell(program, index + 1) ELSE 0,
                           b |-> IF g THEN Cell(program, index + 2) ELSE 0,
                           c |-> IF g THEN Cell(program, index + 3) ELSE 0]
          /\ (Executes(16) /\ Resolves(RawA) /\ Resolves(RawB)
                /\ Value(RawA) < Size(program))
              => /\ status' = "running"
                 /\ Size(program') = Size(program)
                 /\ \A i \in 0 .. (Size(program) - 1) :
                      Cell(program', i) = IF i = Value(RawA)
                                          THEN Value(RawB)
                                          ELSE Cell(program, i)
          /\ ~Executes(16) => program' = program
         ]_vars
    /\ [](/\ (image = Slice(PatchOpcode) /\ status # "running")
              => (status = "halted" /\ output = <<65>>)
          /\ (image = Slice(PatchOperand) /\ status # "running")
              => (status = "halted" /\ output = <<66>>)
          /\ (image = Slice(PatchSelf) /\ status # "running")
              => (status = "halted" /\ fetched.index = 0)
          /\ (image = Slice(PatchByRegister) /\ status # "running")
              => (status = "halted" /\ output = <<65>>))

\* wmem 4 19 turned the noop at 4 into out: 65 was written, then halt
PatchedOpcodeWitness ==
    /\ image = Slice(PatchOpcode)
    /\ Cell(program, 4) = 19
    /\ status = "halted"
    /\ output = <<65>>
    /\ fetched.index = 6

\* C9: an operand whose position is past the end of memory reads as 0 and
\* the fetch raises no error, so the instruction at any index inside memory
\* is executed; the program [19, 65] writes the byte 65 first of all.
FetchIsClipped ==
    /\ [][(status = "running" /\ index < Size(program))
            => \/ vars' = vars
               \/ fetched' =
                    [index |-> index,
                     op |-> Cell(program, index),
                     a |-> IF index + 1 < Size(program)
                           THEN Cell(program, index + 1) ELSE 0,
                     b |-> IF index + 2 < Size(program)
                           THEN Cell(program, index + 2) ELSE 0,
                     c |-> IF index + 3 < Size(program)
                           THEN Cell(program, index + 3) ELSE 0]
         ]_vars
    /\ []((image = Slice(<<19, 65>>) /\ status # "running")
            => (Len(output) >= 1 /\ output[1] = 65))

\* C10: the program [21, 0] stops by halt at index 1, with no output and
\* registers, stack and memory as at the start.
NoopHaltStopsCleanly ==
    (image = Slice(<<21, 0>>) /\ status # "running")
    => /\ status = "halted"
       /\ fetched.index = 1
       /\ fetched.op = 0
       /\ output = << >>
       /\ registers = [i \in 0 .. 7 |-> 0]
       /\ stack = << >>
       /\ program = image

\* C11: the program [9, 32768, 32769, 4, 19, 32768, 0] executes add, out
\* and halt: register 0 becomes 4, the output is the one byte 4, and the
\* run stops by halt.
AddOutRuns ==
    (image = Slice(<<9, 32768, 32769, 4, 19, 32768, 0>>)
     /\ status # "running")
    => /\ status = "halted"
       /\ fetched.index = 6
       /\ registers[0] = 4
       /\ output = <<4>>

\* the operand count of the opcodes that do not reassign the index
Operands(k) ==
    IF k = 21 THEN 0
    ELSE IF k \in {2, 3, 19, 20} THEN 1
    ELSE IF k \in {1, 14, 15, 16, 7, 8} THEN 2
    ELSE 3

\* the opcodes whose successful step leaves the index to the loop
Sequential ==
    {1, 2, 3, 4, 5, 9, 10, 11, 12, 13, 14, 15, 16, 19, 20, 21}

\* jt or jf is executed and its branch is not taken
NotTaken ==
    /\ Resolves(RawA)
    /\ \/ Executes(7) /\ Value(RawA) = 0
       \/ Executes(8) /\ Value(RawA) # 0

\* C12 as stated: a successful step of an opcode that does not reassign
\* the index moves it from IP to exactly IP + operand count + 1.
AdvanceIsExact ==
    [][((\E k \in Sequential : Executes(k)) \/ NotTaken)
        => (status' = "running" => index' = index + Operands(Opcode) + 1)
      ]_vars

\* C12, amended: the index moves to IP + operand count + 1 modulo 65536.
AdvanceModulo ==
    [][((\E k \in Sequential : Executes(k)) \/ NotTaken)
        => (status' = "running"
              => index' = (index + Operands(Opcode) + 1) % 65536)
      ]_vars

\* jt at the last word of the 65535-word memory, not taken, has wrapped
AdvanceWrapWitness ==
    /\ status = "running"
    /\ fetched = [index |-> 65534, op |-> 7, a |-> 0, b |-> 0, c |-> 0]
    /\ index = 1

\* C13: after jmp, a taken jt or jf, and call, the iteration that follows
\* starts at the resolved target, for every target in [0, 32767], 0
\* included.
JumpLandsOnTarget ==
    [][/\ (Executes(6) /\ Resolves(RawA))
           => (status' = "running" /\ index' = Value(RawA))
       /\ (Executes(7) /\ Resolves(RawA) /\ Value(RawA) # 0
             /\ Resolves(RawB))
           => (status' = "running" /\ index' = Value(RawB))
       /\ (Executes(8) /\ Resolves(RawA) /\ Value(RawA) = 0
             /\ Resolves(RawB))
           => (status' = "running" /\ index' = Value(RawB))
       /\ (Executes(17) /\ Resolves(RawA))
           => (status' = "running" /\ index' = Value(RawA))
      ]_vars

\* call 0 at index 3 has landed on index 0
JumpToZeroWitness ==
    /\ status = "running"
    /\ fetched.index = 3
    /\ fetched.op = 17
    /\ fetched.a = 0
    /\ index = 0
    /\ stack = <<5>>

\* C14: an out whose value(a) is in [0, 255] appends exactly the one byte
\* value(a) to the output, and no other instruction changes the output.
OutAppendsOneByte ==
    [][/\ (Executes(19) /\ Resolves(RawA) /\ Value(RawA) \in 0 .. 255)
           => output' = Append(output, Value(RawA))
       /\ ~Executes(19) => output' = output
      ]_vars

\* the characters not yet delivered: the line buffer, then the source
Pending == input \o stdin

LastNewline(bytes) ==
    IF \E i \in 1 .. Len(bytes) : bytes[i] = Newline
    THEN CHOOSE i \in 1 .. Len(bytes) :
             /\ bytes[i] = Newline
             /\ \A j \in (i + 1) .. Len(bytes) : bytes[j] # Newline
    ELSE 0

\* the complete lines of a byte sequence
Lines(bytes) == SubSeq(bytes, 1, LastNewline(bytes))

\* C15: input is delivered in order and nothing is lost across refills:
\* while a complete line is still undelivered, an in with a register
\* destination stores the first undelivered character, the undelivered
\* complete lines lose exactly that character, and the source is touched
\* only when the line buffer is empty.
InputInOrder ==
    [][(Executes(20) /\ IsRegister(RawA) /\ Lines(Pending) # << >>)
        => /\ Stores(RawA - 32768, Head(Pending))
           /\ Lines(input' \o stdin') = Tail(Lines(Pending))
           /\ input # << >> => stdin' = stdin
      ]_vars

\* the opcodes that hand a destination operand to setRegister
Writers == {1, 3, 4, 5, 9, 10, 11, 12, 13, 14, 15, 20}

\* the terminal states the list names
ListedStop ==
    \/ status = "halted" /\ fetched.op = 0
    \/ status = "halted" /\ fetched.op = 18 /\ stack = << >>
    \/ status = "panic" /\ err = "unknown opcode" /\ fetched.op > 21
    \/ status = "panic" /\ err = "overflow"
    \/ status = "panic" /\ err = "empty stack" /\ fetched.op = 3
    \/ status = "panic" /\ err = "EOF" /\ fetched.op = 20

\* the terminal states the list leaves out
UnlistedStop ==
    \/ /\ status = "panic" /\ err = "integer divide by zero"
       /\ fetched.op = 11
    \/ /\ status = "panic" /\ err = "index out of range"
       /\ \/ fetched.op \in Writers /\ ~IsRegister(fetched.a)
          \/ fetched.op \in {15, 16}
          \/ ~FetchOK

\* C16 as stated: a run that stops is in one of the six listed terminal
\* states.
StopsAreListed == status # "running" => ListedStop

\* C16, amended: a run that stops is in one of the six listed terminal
\* states, or it died of a division by zero in mod, or of an index out of
\* range (a destination that is no register, an rmem or wmem address
\* outside the image, or an instruction or operand read outside the image).
StopsAreClosed == status # "running" => (ListedStop \/ UnlistedStop)

\* mod by zero has stopped the run
DivideByZeroWitness ==
    /\ status = "panic"
    /\ err = "integer divide by zero"
    /\ fetched.op = 11
    /\ fetched.c = 0

\* C17: a writing instruction whose raw destination a is no register
\* address, below 32768 or above 32775, stops the run with a fatal error
\* and changes no register and no memory cell.
BadDestinationIsFatal ==
    [][((\E k \in Writers : Executes(k)) /\ ~IsRegister(RawA))
        => /\ status' = "panic"
           /\ registers' = registers
           /\ program' = program
      ]_vars

\* in with destination 5 and a line to read has stopped the run
BadDestinationWitness ==
    /\ status = "panic"
    /\ err = "index out of range"
    /\ fetched.op = 20
    /\ fetched.a = 5
    /\ input = << >>
    /\ stdin = <<97>>
    /\ registers = [i \in 0 .. 7 |-> 0]

\* C18: memory always has as many cells as the loaded image, and an rmem
\* or wmem whose resolved address is at or past that count stops the run
\* with a fatal error, changing no memory cell and no register.
MemoryIsImageSized ==
    /\ [](Size(program) = Size(image))
    /\ [][/\ (Executes(15) /\ Resolves(RawB)
                 /\ Value(RawB) >= Size(image))
               => /\ status' = "panic"
                  /\ program' = program
                  /\ registers' = registers
          /\ (Executes(16) /\ Resolves(RawA)
                 /\ Value(RawA) >= Size(image))
               => /\ status' = "panic"
                  /\ program' = program
                  /\ registers' = registers
         ]_vars

\* wmem through r0 = 21845 in an 11-word image has stopped the run
WmemOutsideWitness ==
    /\ status = "panic"
    /\ err = "index out of range"
    /\ fetched.op = 16
    /\ fetched.a = 32768
    /\ registers[0] = 21845
    /\ Size(program) = 11
    /\ program = image

\* C19: a mod whose divisor resolves to 0 stops the run with a fatal error
\* and leaves the registers, memory, the stack and the instruction pointer
\* as they were; with a divisor other than 0 and a register destination it
\* stores value(b) mod value(c), a value in [0, value(c) - 1].
ModByZeroIsFatal ==
    [][(Executes(11) /\ Resolves(RawB) /\ Resolves(RawC))
        => /\ Value(RawC) = 0
               => /\ status' = "panic"
                  /\ registers' = registers
                  /\ program' = program
                  /\ stack' = stack
                  /\ index' = index
           /\ (Value(RawC) # 0 /\ IsRegister(RawA))
               => /\ Stores(RawA - 32768, Value(RawB) % Value(RawC))
                  /\ registers'[RawA - 32768] \in 0 .. (Value(RawC) - 1)
      ]_vars

\* mod r0 21845 0 has stopped the run with r0 still holding its seed
ModByZeroWitness ==
    /\ status = "panic"
    /\ err = "integer divide by zero"
    /\ fetched = [index |-> 3, op |-> 11, a |-> 32768, b |-> 21845, c |-> 0]
    /\ index = 3
    /\ registers[0] = 32767

\* C20: in an image of at most 32766 words every element of the stack is
\* in [0, 32767] in every reachable state, so a ret on a stack that is not
\* empty resolves the popped address to itself: the run goes on at that
\* address, no register is read and no overflow is raised.
StackHoldsAddresses ==
    /\ [](Size(image) <= 32766
            => \A i \in 1 .. Len(stack) : stack[i] \in 0 .. 32767)
    /\ [][(Size(image) <= 32766 /\ Executes(18) /\ stack # << >>)
            => /\ status' = "running"
               /\ index' = stack[Len(stack)]
               /\ stack' = SubSeq(stack, 1, Len(stack) - 1)
         ]_vars

\* the call in the last word of a 32766-word image pushed 32767, and ret
\* has returned to it
ReturnToTopWitness ==
    /\ Size(image) = 32766
    /\ status = "running"
    /\ fetched.index = 8
    /\ fetched.op = 18
    /\ index = 32767
    /\ stack = << >>

====
